---------------------------- MODULE Spec2Model ----------------------------
(***************************************************************************)
(* Model of software/examples/c/main/main.c: the ICP-10111 polling example. *)
(* main() initialises the I2C bus once and then samples for ever: a        *)
(* pressure command write, a 9-byte read, a temperature command write, a   *)
(* 6-byte read, one printed row, a sleep.                                  *)
(*                                                                         *)
(* C `float` values are IEEE-754 binary32.  A float is modelled exactly as *)
(* a record [num, exp] standing for the rational num / 2^exp with          *)
(* |num| <= 2^24; the two float operations of the program (division by     *)
(* 100.0f, subtraction of 40.0f) round to nearest, ties to even, as the    *)
(* hardware does, and "%.2f" rounds the exact binary value to two decimals.*)
(* A printed number is modelled by its value in hundredths.                *)
(***************************************************************************)
EXTENDS Integers, Sequences, FiniteSets

\* ------------------------------------------------------------------------
\* Bounds of the model
\* ------------------------------------------------------------------------
\* number of loop iterations explored (sample_count is an unbounded int)
MaxSamples == 2

\* ------------------------------------------------------------------------
\* Program constants
\* ------------------------------------------------------------------------
EXIT_FAILURE == 1
EXIT_SUCCESS == 0
CMD_LEN == 3
PRESSURE_LEN == 9
TEMPERATURE_LEN == 6
\* descriptor returned by a successful open()
FD_OPENED == 3

PRESSURE_CMD == <<72, 163, 0>>
TEMPERATURE_CMD == <<96, 156, 0>>

\* ------------------------------------------------------------------------
\* Inputs: bytes the sensor may return, syscall return values
\* ------------------------------------------------------------------------
\* uint8_t values the model reads from the bus: 0x00, 0x10, 0x27, 0xFF
ByteSample == {0, 16, 39, 255}
\* the bytes of a read that follow the ones the decoders use
FillSample == {0, 255}

Fill(b, n) == [i \in 1..n |-> b]

PressureData ==
    { <<b0, b1, b2>> \o Fill(f, PRESSURE_LEN - 3) :
        b0 \in ByteSample, b1 \in ByteSample, b2 \in ByteSample, f \in FillSample }

TemperatureData ==
    { <<b0, b1>> \o Fill(f, TEMPERATURE_LEN - 2) :
        b0 \in ByteSample, b1 \in ByteSample, f \in FillSample }

\* what a failed or short read leaves in the buffer (the program never looks)
ShortData(len) == { Fill(f, len) : f \in FillSample }

\* ssize_t results of write(fd, cmd, 3) and read(fd, data, len)
WriteRet == {-1, 0, CMD_LEN - 1, CMD_LEN}
ReadRet(len) == {-1, 0, len - 1, len}

OpenRet == {-1, FD_OPENED}
IoctlRet == {-1, 0}

\* ------------------------------------------------------------------------
\* binary32 arithmetic
\* ------------------------------------------------------------------------
Abs(x) == IF x < 0 THEN -x ELSE x

\* the integer nearest to n / d, ties to the even one (n >= 0, d > 0)
RoundHalfEven(n, d) ==
    LET q == n \div d
        r == n % d
    IN  IF r > d - r THEN q + 1
        ELSE IF r < d - r THEN q
        ELSE IF q % 2 = 0 THEN q ELSE q + 1

FloatZero == [num |-> 0, exp |-> 0]

RECURSIVE ScaleUp(_, _, _)
\* the least k >= e with n * 2^(k-e) >= d * 2^23, where n already carries 2^e
ScaleUp(n, d, e) == IF n >= d * (2 ^ 23) THEN e ELSE ScaleUp(2 * n, d, e + 1)

\* (float)n / (float)d for integers 0 <= n < 2^24 and 0 < d <= 100 with
\* n / d < 2^23: both conversions are exact, and the quotient is rounded to
\* a 24-bit significand
FloatDiv(n, d) ==
    IF n = 0 THEN FloatZero
    ELSE LET k == ScaleUp(n, d, 0)
         IN  [num |-> RoundHalfEven(n * (2 ^ k), d), exp |-> k]

RECURSIVE DropBits(_, _)
\* the least s >= t with mag / 2^s < 2^24
DropBits(mag, s) == IF mag \div (2 ^ s) < 2 ^ 24 THEN s ELSE DropBits(mag, s + 1)

\* the float nearest to (mag + phi) / 2^K, where phi = 0 when ~sticky and
\* 0 < phi < 1 when sticky (sticky only with mag >= 2^24); neg is its sign
RoundMag(neg, mag, K, sticky) ==
    LET s    == DropBits(mag, 0)
        q    == mag \div (2 ^ s)
        r    == mag % (2 ^ s)
        half == IF s = 0 THEN 0 ELSE 2 ^ (s - 1)
        up   == s > 0 /\ (r > half \/ (r = half /\ (sticky \/ q % 2 = 1)))
        m    == IF up THEN q + 1 ELSE q
    IN  [num |-> IF neg THEN -m ELSE m, exp |-> K - s]

\* f - (float)c for a float f >= 0 and an integer 0 < c <= 40, rounded
FloatSubInt(f, c) ==
    LET k == f.exp
        m == f.num
    IN  IF k <= 25
        THEN LET N == m - c * (2 ^ k)
             IN  IF N = 0 THEN FloatZero ELSE RoundMag(N < 0, Abs(N), k, FALSE)
        ELSE \* f < 1/4: scale to 2^-25 and keep the lost bits as a sticky bit
             LET s == k - 25
                 a == m \div (2 ^ s)
                 b == m % (2 ^ s)
             IN  IF b = 0 THEN RoundMag(TRUE, c * (2 ^ 25) - a, 25, FALSE)
                 ELSE RoundMag(TRUE, c * (2 ^ 25) - a - 1, 25, TRUE)

\* the number printf("%.2f") shows for f, in hundredths
Hundredths(f) ==
    LET h == RoundHalfEven(Abs(f.num) * 100, 2 ^ f.exp)
    IN  IF f.num < 0 THEN -h ELSE h

\* ------------------------------------------------------------------------
\* Decoding (read_pressure lines 83-85, read_temperature lines 115-117)
\* ------------------------------------------------------------------------
RECURSIVE BitOr(_, _)
BitOr(a, b) ==
    IF a = 0 THEN b
    ELSE IF b = 0 THEN a
    ELSE (IF a % 2 = 1 \/ b % 2 = 1 THEN 1 ELSE 0) + 2 * BitOr(a \div 2, b \div 2)

Shl(x, n) == x * (2 ^ n)

\* data is the C array data[0..]: data[i] of the program is data[i + 1] here
RawPressure(data) == BitOr(BitOr(Shl(data[1], 16), Shl(data[2], 8)), data[3])

\* the assignment to uint16_t keeps the low 16 bits
RawTemperature(data) == BitOr(Shl(data[1], 8), data[2]) % (2 ^ 16)

DecodePressure(data) == FloatDiv(RawPressure(data), 100)

DecodeTemperatureNoOffset(data) == FloatDiv(RawTemperature(data), 100)

DecodeTemperature(data) == FloatSubInt(FloatDiv(RawTemperature(data), 100), 40)

\* ------------------------------------------------------------------------
\* State
\* ------------------------------------------------------------------------
VARIABLES
    pc,            \* where main() stands
    fd,            \* main's fd
    handle_open,   \* whether the descriptor open() returned is still open
    open_ret,      \* <<r>> once open() has returned r
    ioctl_ret,     \* <<r>> once ioctl() has returned r
    exit_status,   \* <<s>> once main has returned s
    pressure,      \* main's float pressure
    temperature,   \* main's float temperature
    sample_count,  \* main's sample_count
    ops,           \* bus transfers of the current loop iteration, in order
    err,           \* stderr lines of the current loop iteration (or of init)
    header,        \* whether the table header has been printed
    row,           \* <<the row printed in the current loop iteration>>
    rows_printed,  \* number of rows on stdout
    rows_with_error \* number of rows on stdout that show "Error"

vars == <<pc, fd, handle_open, open_ret, ioctl_ret, exit_status, pressure,
          temperature, sample_count, ops, err, header, row, rows_printed,
          rows_with_error>>

\* what an uninitialised local may hold
UninitInt == {-1, 0}
UninitFloat == {FloatZero, [num |-> -12345, exp |-> 3]}

Init ==
    /\ pc = "init"
    /\ fd \in UninitInt
    /\ handle_open = FALSE
    /\ open_ret = <<>>
    /\ ioctl_ret = <<>>
    /\ exit_status = <<>>
    /\ pressure \in UninitFloat
    /\ temperature \in UninitFloat
    /\ sample_count = 0
    /\ ops = <<>>
    /\ err = <<>>
    /\ header = FALSE
    /\ row = <<>>
    /\ rows_printed = 0
    /\ rows_with_error = 0

\* ------------------------------------------------------------------------
\* Output rows (main lines 166, 168, 171)
\* ------------------------------------------------------------------------
Num(f) == [kind |-> "num", h |-> Hundredths(f)]
ErrorText == [kind |-> "Error", h |-> 0]

\* printf("%6d | %13.2f | %15.2f\n", sample_count, pressure, temperature)
RowBoth(n, p, t) == [idx |-> n, p |-> Num(p), t |-> Num(t)]

RowTemperatureStale(n, p) == [idx |-> n, p |-> Num(p), t |-> Num(temperature)]

\* printf("%6d | %13.2f | %15s\n", sample_count, pressure, "Error")
RowTemperatureError(n, p) == [idx |-> n, p |-> Num(p), t |-> ErrorText]

\* printf("%6d | %13s | %15s\n", sample_count, "Error", "Error")
RowBothError(n) == [idx |-> n, p |-> ErrorText, t |-> ErrorText]

HasError(r) == r.p.kind = "Error" \/ r.t.kind = "Error"

\* ------------------------------------------------------------------------
\* Conditions of the program
\* ------------------------------------------------------------------------
OpenFailed(r) == r < 0

IoctlIgnored(r) == FALSE

\* ioctl(fd, I2C_SLAVE, addr) < 0
IoctlFailed(r) == r < 0

\* main: if (fd < 0)
InitFailed(f) == f < 0

WriteOkNonNegative(n) == n >= 0

\* write(fd, cmd, 3) != 3 is the failure
WriteOk(n) == n = CMD_LEN

ReadOkNonNegative(n, len) == n >= 0

\* read(fd, data, len) != len is the failure
ReadOk(n, len) == n = len

LoopCondOnce == sample_count < 1

\* while (1)
LoopCond == TRUE

NextSampleCountSame(c) == c

\* sample_count++
NextSampleCount(c) == c + 1

\* ------------------------------------------------------------------------
\* Actions
\* ------------------------------------------------------------------------
Transfer(op, ch, n, d) == [op |-> op, ch |-> ch, ret |-> n, data |-> d]

AfterRowStopOnError(r) == IF HasError(r) THEN "exited" ELSE "sleep"

\* main lines 163-175: whichever row was printed, control reaches sleep(1)
AfterRow(r) == "sleep"

\* printf of one row of the table, then on to the sleep
PrintRow(r) ==
    /\ pc' = AfterRow(r)
    /\ row' = <<r>>
    /\ rows_printed' = rows_printed + 1
    /\ rows_with_error' = rows_with_error + (IF HasError(r) THEN 1 ELSE 0)


\* main lines 144-156 with init_i2c lines 42-56: open the bus, claim the
\* address; on failure report and return EXIT_FAILURE, else print the header
MainInit ==
    /\ pc = "init"
    /\ \E o \in OpenRet, i \in IoctlRet :
         IF OpenFailed(o)
         THEN \* init_i2c returns -1 without calling ioctl
              /\ open_ret' = <<o>>
              /\ ioctl_ret' = <<>>
              /\ handle_open' = FALSE
              /\ fd' = -1
              /\ err' = <<"Error opening I2C device">>
                          \o (IF InitFailed(-1)
                              THEN <<"Failed to initialize I2C communication">>
                              ELSE <<>>)
              /\ IF InitFailed(-1)
                 THEN /\ exit_status' = <<EXIT_FAILURE>>
                      /\ pc' = "exited"
                      /\ header' = FALSE
                 ELSE /\ exit_status' = <<>>
                      /\ pc' = "loop"
                      /\ header' = TRUE
         ELSE LET failed == IoctlFailed(i)
                  f      == IF failed THEN -1 ELSE o
              IN  /\ open_ret' = <<o>>
                  /\ ioctl_ret' = <<i>>
                  /\ handle_open' = ~failed          \* close(fd) on failure
                  /\ fd' = f
                  /\ err' = (IF failed
                             THEN <<"Error setting I2C slave address">>
                             ELSE <<>>)
                            \o (IF InitFailed(f)
                                THEN <<"Failed to initialize I2C communication">>
                                ELSE <<>>)
                  /\ IF InitFailed(f)
                     THEN /\ exit_status' = <<EXIT_FAILURE>>
                          /\ pc' = "exited"
                          /\ header' = FALSE
                     ELSE /\ exit_status' = <<>>
                          /\ pc' = "loop"
                          /\ header' = TRUE
    /\ UNCHANGED <<pressure, temperature, sample_count, ops, row,
                   rows_printed, rows_with_error>>

\* main lines 159-160 (and 178-180 should the loop condition ever be false)
LoopHead ==
    /\ pc = "loop"
    /\ sample_count < MaxSamples
    /\ rows_printed < MaxSamples
    /\ IF LoopCond
       THEN /\ sample_count' = NextSampleCount(sample_count)
            /\ ops' = <<>>
            /\ err' = <<>>
            /\ row' = <<>>
            /\ pc' = "p_write"
            /\ UNCHANGED <<handle_open, exit_status>>
       ELSE /\ handle_open' = FALSE               \* close(fd)
            /\ exit_status' = <<EXIT_SUCCESS>>
            /\ pc' = "exited"
            /\ UNCHANGED <<sample_count, ops, err, row>>
    /\ UNCHANGED <<fd, open_ret, ioctl_ret, pressure, temperature, header,
                   rows_printed, rows_with_error>>

\* read_pressure lines 65-72; on failure main line 171
PressureWrite ==
    /\ pc = "p_write"
    /\ \E n \in WriteRet :
         /\ ops' = Append(ops, Transfer("write", "P", n, PRESSURE_CMD))
         /\ IF WriteOk(n)
            THEN /\ pc' = "p_read"
                 /\ UNCHANGED <<row, rows_printed, rows_with_error>>
                 /\ UNCHANGED err
            ELSE /\ err' = Append(err, "Error sending pressure command")
                 /\ PrintRow(RowBothError(sample_count))
    /\ UNCHANGED <<fd, handle_open, open_ret, ioctl_ret, exit_status, pressure,
                   temperature, sample_count, header>>

\* read_pressure lines 74-87; on failure main line 171
PressureRead ==
    /\ pc = "p_read"
    /\ \E n \in ReadRet(PRESSURE_LEN) :
       \E d \in (IF n = PRESSURE_LEN THEN PressureData ELSE ShortData(PRESSURE_LEN)) :
         /\ ops' = Append(ops, Transfer("read", "P", n, d))
         /\ IF ReadOk(n, PRESSURE_LEN)
            THEN /\ pressure' = DecodePressure(d)
                 /\ pc' = "t_write"
                 /\ UNCHANGED <<row, rows_printed, rows_with_error>>
                 /\ UNCHANGED err
            ELSE /\ err' = Append(err, "Error reading pressure data")
                 /\ PrintRow(RowBothError(sample_count))
                 /\ UNCHANGED pressure
    /\ UNCHANGED <<fd, handle_open, open_ret, ioctl_ret, exit_status,
                   temperature, sample_count, header>>

\* read_temperature lines 97-104; on failure main line 168
TemperatureWrite ==
    /\ pc = "t_write"
    /\ \E n \in WriteRet :
         /\ ops' = Append(ops, Transfer("write", "T", n, TEMPERATURE_CMD))
         /\ IF WriteOk(n)
            THEN /\ pc' = "t_read"
                 /\ UNCHANGED <<row, rows_printed, rows_with_error>>
                 /\ UNCHANGED err
            ELSE /\ err' = Append(err, "Error sending temperature command")
                 /\ PrintRow(RowTemperatureError(sample_count, pressure))
    /\ UNCHANGED <<fd, handle_open, open_ret, ioctl_ret, exit_status, pressure,
                   temperature, sample_count, header>>

\* read_temperature lines 106-119; then main line 166, on failure line 168;
\* a full read returns one of the buffers of D
TemperatureReadFrom(D) ==
    /\ pc = "t_read"
    /\ \E n \in ReadRet(TEMPERATURE_LEN) :
       \E d \in (IF n = TEMPERATURE_LEN THEN D ELSE ShortData(TEMPERATURE_LEN)) :
         /\ ops' = Append(ops, Transfer("read", "T", n, d))
         /\ IF ReadOk(n, TEMPERATURE_LEN)
            THEN /\ temperature' = DecodeTemperature(d)
                 /\ PrintRow(RowBoth(sample_count, pressure, temperature'))
                 /\ UNCHANGED err
            ELSE /\ err' = Append(err, "Error reading temperature data")
                 /\ PrintRow(RowTemperatureError(sample_count, pressure))
                 /\ UNCHANGED temperature
    /\ UNCHANGED <<fd, handle_open, open_ret, ioctl_ret, exit_status, pressure,
                   sample_count, header>>

TemperatureRead == TemperatureReadFrom(TemperatureData)

\* main line 175: sleep(1), then back to the loop head
Sleep ==
    /\ pc = "sleep"
    /\ pc' = "loop"
    /\ UNCHANGED <<fd, handle_open, open_ret, ioctl_ret, exit_status, pressure,
                   temperature, sample_count, ops, err, header, row,
                   rows_printed, rows_with_error>>

Next ==
    \/ MainInit
    \/ LoopHead
    \/ PressureWrite
    \/ PressureRead
    \/ TemperatureWrite
    \/ TemperatureRead
    \/ Sleep

Spec == Init /\ [][Next]_vars

\* every system call of the program returns, so main always takes its next step
LiveSpec == Spec /\ WF_vars(Next)

\* ------------------------------------------------------------------------
\* read_temperature on every value of the two bytes it decodes: main stands
\* before the temperature read of its first sample, 100.00 hPa just read
\* ------------------------------------------------------------------------
AllByte == 0 .. 255

AllTemperatureData ==
    { <<b0, b1>> \o Fill(f, TEMPERATURE_LEN - 2) :
        b0 \in AllByte, b1 \in AllByte, f \in FillSample }

FirstPressureData == <<0, 39, 16>> \o Fill(0, PRESSURE_LEN - 3)

BeforeTemperatureRead ==
    /\ pc = "t_read"
    /\ fd = FD_OPENED
    /\ handle_open = TRUE
    /\ open_ret = <<FD_OPENED>>
    /\ ioctl_ret = <<0>>
    /\ exit_status = <<>>
    /\ pressure = DecodePressure(FirstPressureData)
    /\ temperature \in UninitFloat
    /\ sample_count = 1
    /\ ops = << Transfer("write", "P", CMD_LEN, PRESSURE_CMD),
                Transfer("read", "P", PRESSURE_LEN, FirstPressureData),
                Transfer("write", "T", CMD_LEN, TEMPERATURE_CMD) >>
    /\ err = <<>>
    /\ header = TRUE
    /\ row = <<>>
    /\ rows_printed = 0
    /\ rows_with_error = 0

TemperatureReadAny == TemperatureReadFrom(AllTemperatureData)

TemperatureSpec == BeforeTemperatureRead /\ [][TemperatureReadAny]_vars

TypeOK ==
    /\ pc \in {"init", "loop", "p_write", "p_read", "t_write", "t_read", "sleep", "exited"}
    /\ sample_count \in 0..MaxSamples
    /\ rows_printed \in 0..MaxSamples
    /\ Len(ops) <= 4
    /\ Len(row) <= 1

\* ------------------------------------------------------------------------
\* Properties
\* ------------------------------------------------------------------------
\* the transfers of the current sample on channel ch
WriteFailed(ch) ==
    \E i \in DOMAIN ops : ops[i].ch = ch /\ ops[i].op = "write" /\ ops[i].ret # 3

ReadFailed(ch, len) ==
    \E i \in DOMAIN ops : ops[i].ch = ch /\ ops[i].op = "read" /\ ops[i].ret # len

PressureFailed == WriteFailed("P") \/ ReadFailed("P", 9)
TemperatureFailed == WriteFailed("T") \/ ReadFailed("T", 6)

\* the full reads of the current sample
PressureReads == { i \in DOMAIN ops : ops[i].ch = "P" /\ ops[i].op = "read" /\ ops[i].ret = 9 }
TemperatureReads == { i \in DOMAIN ops : ops[i].ch = "T" /\ ops[i].op = "read" /\ ops[i].ret = 6 }

InitSucceeded ==
    /\ open_ret # <<>> /\ open_ret[1] >= 0
    /\ ioctl_ret # <<>> /\ ioctl_ret[1] >= 0

InitFailure ==
    \/ open_ret # <<>> /\ open_ret[1] < 0
    \/ ioctl_ret # <<>> /\ ioctl_ret[1] < 0

\* C1: after a full 9-byte pressure read with first bytes b0, b1, b2, the
\* pressure held and printed is, in hundredths of hPa, exactly
\* 65536*b0 + 256*b1 + b2, whatever the other six bytes are.
PressureExact ==
    \A i \in PressureReads :
        LET d == ops[i].data
            h == 65536 * d[1] + 256 * d[2] + d[3]
        IN  /\ Hundredths(pressure) = h
            /\ row # <<>> => row[1].p = [kind |-> "num", h |-> h]

\* C2: after a full 6-byte temperature read with first bytes b0, b1, the
\* temperature held and printed is, in hundredths of a degree, exactly
\* 256*b0 + b1 - 4000, whatever the other four bytes are, and it is a number.
TemperatureExact ==
    \A i \in TemperatureReads :
        LET d == ops[i].data
            h == 256 * d[1] + d[2] - 4000
        IN  /\ Hundredths(temperature) = h
            /\ row # <<>>
            /\ row[1].t = [kind |-> "num", h |-> h]

\* C2 witness: the bytes 0x27, 0x10 have been read and 60.00 is printed
TemperatureExactWitness ==
    /\ row # <<>>
    /\ row[1].t = [kind |-> "num", h |-> 6000]
    /\ \E i \in TemperatureReads : ops[i].data[1] = 39 /\ ops[i].data[2] = 16

\* C3: a row printed for a sample in which a channel's write or read came
\* back short shows "Error" in that channel's column.
FailureShowsError ==
    row # <<>> =>
        /\ PressureFailed => row[1].p = ErrorText
        /\ TemperatureFailed => row[1].t = ErrorText

\* C3 witness: a short temperature read, reported next to a numeric pressure
FailureShowsErrorWitness ==
    /\ row # <<>>
    /\ ReadFailed("T", 6)
    /\ row[1].t = ErrorText
    /\ row[1].p.kind = "num"

\* C4: once the row of sample n is printed (or, for n = 0, once the header is),
\* the pressure command of sample n + 1 is eventually written, whatever the
\* outcome of sample n was.
NextSampleAttempted ==
    \A n \in 0 .. (MaxSamples - 1) :
        ((header /\ sample_count = n /\ (n = 0 \/ row # <<>>))
            ~> (/\ sample_count = n + 1
                /\ ops # <<>>
                /\ ops[1].op = "write" /\ ops[1].ch = "P"))

\* C4 witness: the first sample failed and the second one has written its command
NextSampleAttemptedWitness ==
    /\ sample_count = 2
    /\ rows_with_error = 1
    /\ ops # <<>>
    /\ ops[1].op = "write" /\ ops[1].ch = "P"

\* C5: when open() or ioctl() fails the process exits with a non-zero status
\* and has written no command and printed neither the header nor a row.
InitFailureFatal ==
    InitFailure =>
        /\ pc = "exited"
        /\ exit_status # <<>> /\ exit_status[1] # 0
        /\ ops = <<>>
        /\ header = FALSE
        /\ row = <<>> /\ rows_printed = 0

\* C5 witness: the bus opened, the address could not be claimed, main returned
InitFailureFatalWitness ==
    /\ open_ret = <<FD_OPENED>>
    /\ ioctl_ret = <<-1>>
    /\ exit_status = <<EXIT_FAILURE>>

\* C6: a column of a printed row shows "Error" only if that column's own
\* channel had a failed write or read in that sample.
ErrorOnlyInFailedColumn ==
    row # <<>> =>
        /\ row[1].t = ErrorText => TemperatureFailed
        /\ row[1].p = ErrorText => PressureFailed

\* C7: every number in a printed row is decoded from the bytes of a full
\* read of that channel in that same sample, never a value left over from an
\* earlier sample or from before the first assignment.
NoHistory ==
    row # <<>> =>
        /\ row[1].p.kind = "num" =>
              \E i \in PressureReads : row[1].p = Num(DecodePressure(ops[i].data))
        /\ row[1].t.kind = "num" =>
              \E i \in TemperatureReads : row[1].t = Num(DecodeTemperature(ops[i].data))

\* C7 witness: a fully numeric row right after a sample that failed
NoHistoryWitness ==
    /\ sample_count = 2
    /\ rows_with_error = 1
    /\ row # <<>>
    /\ row[1].p.kind = "num" /\ row[1].t.kind = "num"

\* C8: the only exit is the non-zero one of a failed initialisation; after a
\* successful one the program has not exited and the bus handle is open.
NoSuccessExit ==
    /\ exit_status # <<>> => (exit_status[1] # 0 /\ InitFailure)
    /\ InitSucceeded => (pc # "exited" /\ exit_status = <<>> /\ handle_open)

\* C8 witness: every explored sample is done, one failed, still in the loop
NoSuccessExitWitness ==
    /\ InitSucceeded
    /\ sample_count = MaxSamples
    /\ rows_with_error >= 1
    /\ pc = "loop"
    /\ handle_open

\* C9: within a sample the transfers are the pressure write, then the
\* pressure read only after a full write, then the temperature write only
\* after a full pressure read, then the temperature read only after a full write.
TransfersOrdered ==
    /\ Len(ops) <= 4
    /\ \A i \in DOMAIN ops :
        /\ i = 1 => (ops[1].op = "write" /\ ops[1].ch = "P")
        /\ i = 2 => (ops[2].op = "read" /\ ops[2].ch = "P" /\ ops[1].ret = 3)
        /\ i = 3 => (ops[3].op = "write" /\ ops[3].ch = "T" /\ ops[2].ret = 9)
        /\ i = 4 => (ops[4].op = "read" /\ ops[4].ch = "T" /\ ops[3].ret = 3)

\* C9 witness: a sample that went through all four transfers
TransfersOrderedWitness ==
    /\ Len(ops) = 4
    /\ ops[4].ret = 6

\* C10: each iteration prints one row, and the row carries the number of rows
\* printed so far, which is the iteration's sample_count.
SampleNumbering ==
    /\ row # <<>> => (row[1].idx = rows_printed /\ rows_printed = sample_count)
    /\ pc \in {"p_write", "p_read", "t_write", "t_read"} =>
          (row = <<>> /\ rows_printed = sample_count - 1)
    /\ pc \in {"sleep", "loop"} => rows_printed = sample_count
    /\ pc = "sleep" => row # <<>>

\* C10 witness: the second row, printed after a failed first sample
SampleNumberingWitness ==
    /\ rows_printed = 2
    /\ rows_with_error >= 1
    /\ row # <<>>
    /\ row[1].idx = 2

=============================================================================
